---- MODULE Spec2Model ----
(***************************************************************************)
(* Boot-time configuration getters of the Maptos execution util crate      *)
(* (src/protocol-units/execution/util/src/config/common.rs).               *)
(*                                                                         *)
(* The process environment is a map from variable names to values.  Every  *)
(* env_default! invocation of common.rs is a getter that reads one         *)
(* variable; default_maptos_private_key reads MAPTOS_PRIVATE_KEY and may   *)
(* draw from the thread-local random generator.                            *)
(*                                                                         *)
(* Texts are sequences of one-character strings.  Unsigned integers are    *)
(* kept as their sequence of decimal digits (most significant first, no    *)
(* superfluous leading zero), because a u64 does not fit TLC's integers.   *)
(***************************************************************************)
EXTENDS Integers, Sequences, FiniteSets, TLC

VARIABLES env, last

vars == <<env, last>>

----------------------------------------------------------------------------
(* Bounds *)

\* Largest number of environment variables that are set at the same time.
MaxSet == 1

----------------------------------------------------------------------------
(* Characters, digits, results *)

DigitChars == {"0", "1", "2", "3", "4", "5", "6", "7", "8", "9"}

DigitOf ==
  ("0" :> 0) @@ ("1" :> 1) @@ ("2" :> 2) @@ ("3" :> 3) @@ ("4" :> 4) @@
  ("5" :> 5) @@ ("6" :> 6) @@ ("7" :> 7) @@ ("8" :> 8) @@ ("9" :> 9)

CharOfDigit == <<"0", "1", "2", "3", "4", "5", "6", "7", "8", "9">>

UpperToLower ==
  ("A" :> "a") @@ ("B" :> "b") @@ ("C" :> "c") @@ ("D" :> "d") @@
  ("E" :> "e") @@ ("F" :> "f") @@ ("G" :> "g") @@ ("H" :> "h") @@
  ("I" :> "i") @@ ("J" :> "j") @@ ("K" :> "k") @@ ("L" :> "l") @@
  ("M" :> "m") @@ ("N" :> "n") @@ ("O" :> "o") @@ ("P" :> "p") @@
  ("Q" :> "q") @@ ("R" :> "r") @@ ("S" :> "s") @@ ("T" :> "t") @@
  ("U" :> "u") @@ ("V" :> "v") @@ ("W" :> "w") @@ ("X" :> "x") @@
  ("Y" :> "y") @@ ("Z" :> "z")

to_lowercase(s) ==
  [i \in 1..Len(s) |-> IF s[i] \in DOMAIN UpperToLower THEN UpperToLower[s[i]] ELSE s[i]]

\* A typed value: ints holds digits (u16, u64), the id (ChainId) or the key
\* bytes (Ed25519PrivateKey); txt holds the characters of a String.
NoVal == [ty |-> "none", ints |-> <<>>, txt |-> <<>>]
StringVal(t) == [ty |-> "String", ints |-> <<>>, txt |-> t]
UIntVal(ty, digits) == [ty |-> ty, ints |-> digits, txt |-> <<>>]
ChainIdVal(id) == [ty |-> "ChainId", ints |-> <<id>>, txt |-> <<>>]
KeyVal(bytes) == [ty |-> "Ed25519PrivateKey", ints |-> bytes, txt |-> <<>>]

\* Result<T, E>
Ok(v) == [kind |-> "ok", val |-> v]
Err == [kind |-> "err", val |-> NoVal]
\* The outcome of a call that panicked (unwrap on Err).
Panic == [kind |-> "panic", val |-> NoVal]

unwrap(r) == IF r.kind = "ok" THEN r ELSE Panic

----------------------------------------------------------------------------
(* Unsigned decimal numbers *)

RECURSIVE Nat2Digits(_)
Nat2Digits(n) == IF n < 10 THEN <<n>> ELSE Append(Nat2Digits(n \div 10), n % 10)

RECURSIVE Digits2Nat(_)
Digits2Nat(d) ==
  IF d = <<>> THEN 0 ELSE 10 * Digits2Nat(SubSeq(d, 1, Len(d) - 1)) + d[Len(d)]

RECURSIVE StripZeros(_)
StripZeros(d) == IF Len(d) > 1 /\ d[1] = 0 THEN StripZeros(Tail(d)) ELSE d

\* a > b for two digit sequences without superfluous leading zeros
RECURSIVE DigitsGreater(_, _)
DigitsGreater(a, b) ==
  IF Len(a) # Len(b) THEN Len(a) > Len(b)
  ELSE IF a = <<>> THEN FALSE
  ELSE IF a[1] # b[1] THEN a[1] > b[1]
  ELSE DigitsGreater(Tail(a), Tail(b))

U8_MAX == Nat2Digits(255)
U16_MAX == Nat2Digits(65535)
U64_MAX == <<1,8,4,4,6,7,4,4,0,7,3,7,0,9,5,5,1,6,1,5>>

\* <unsigned>::from_str: an optional '+', then at least one decimal digit,
\* accumulated with overflow checks against the type's maximum.
uint_from_str(s, max) ==
  IF s = <<>> THEN Err
  ELSE LET body == IF Head(s) = "+" THEN Tail(s) ELSE s IN
       IF body = <<>> THEN Err
       ELSE IF \E i \in 1..Len(body) : body[i] \notin DigitChars THEN Err
       ELSE LET d == StripZeros([i \in 1..Len(body) |-> DigitOf[body[i]]]) IN
            IF DigitsGreater(d, max) THEN Err ELSE Ok(d)

\* Display of an unsigned integer
uint_to_string(digits) == [i \in 1..Len(digits) |-> CharOfDigit[digits[i] + 1]]

----------------------------------------------------------------------------
(* ChainId *)

NamedChain ==
  (<<"m","a","i","n","n","e","t">> :> 1) @@
  (<<"t","e","s","t","n","e","t">> :> 2) @@
  (<<"d","e","v","n","e","t">> :> 3) @@
  (<<"t","e","s","t","i","n","g">> :> 4) @@
  (<<"p","r","e","m","a","i","n","n","e","t">> :> 5)

\* ChainId::from_str: a reserved chain name, or a non-zero u8
ChainId_from_str(s) ==
  IF s = <<>> THEN Err
  ELSE IF to_lowercase(s) \in DOMAIN NamedChain THEN Ok(ChainIdVal(NamedChain[to_lowercase(s)]))
  ELSE LET value == uint_from_str(s, U8_MAX) IN
       IF value.kind # "ok" THEN Err
       ELSE IF Digits2Nat(value.val) = 0 THEN Err
       ELSE Ok(ChainIdVal(Digits2Nat(value.val)))

----------------------------------------------------------------------------
(* Ed25519 private keys and their string encoding *)

ED25519_PRIVATE_KEY_LENGTH == 32

HexOf ==
  DigitOf @@
  ("a" :> 10) @@ ("b" :> 11) @@ ("c" :> 12) @@ ("d" :> 13) @@ ("e" :> 14) @@ ("f" :> 15) @@
  ("A" :> 10) @@ ("B" :> 11) @@ ("C" :> 12) @@ ("D" :> 13) @@ ("E" :> 14) @@ ("F" :> 15)

HexChars == <<"0", "1", "2", "3", "4", "5", "6", "7", "8", "9", "a", "b", "c", "d", "e", "f">>

\* hex::decode: an even number of hexadecimal digits of either case
hex_decode(s) ==
  IF Len(s) % 2 # 0 THEN [kind |-> "err", bytes |-> <<>>]
  ELSE IF \E i \in 1..Len(s) : s[i] \notin DOMAIN HexOf THEN [kind |-> "err", bytes |-> <<>>]
  ELSE [kind |-> "ok",
        bytes |-> [i \in 1..(Len(s) \div 2) |-> 16 * HexOf[s[2 * i - 1]] + HexOf[s[2 * i]]]]

\* hex::encode: two lowercase hexadecimal digits per byte
hex_encode(bytes) ==
  [i \in 1..(2 * Len(bytes)) |->
     IF i % 2 = 1 THEN HexChars[(bytes[(i + 1) \div 2] \div 16) + 1]
     ELSE HexChars[(bytes[i \div 2] % 16) + 1]]

strip_0x(s) ==
  IF Len(s) >= 2 /\ s[1] = "0" /\ s[2] = "x" THEN SubSeq(s, 3, Len(s)) ELSE s

\* ValidCryptoMaterialStringExt::from_encoded_string for Ed25519PrivateKey
from_encoded_string(s) ==
  LET bytes_out == hex_decode(strip_0x(s)) IN
  IF bytes_out.kind # "ok" THEN Err
  ELSE IF Len(bytes_out.bytes) # ED25519_PRIVATE_KEY_LENGTH THEN Err
  ELSE Ok(KeyVal(bytes_out.bytes))

\* ValidCryptoMaterialStringExt::to_encoded_string
to_encoded_string(k) == <<"0", "x">> \o hex_encode(k.ints)

----------------------------------------------------------------------------
(* The getters declared with env_default!(name, key, type, default) *)

Hostname0 == <<"0",".","0",".","0",".","0">>

default_maptos_rest_listen_hostname ==
  [key |-> "MAPTOS_API_LISTEN_HOSTNAME", ty |-> "String", default |-> StringVal(Hostname0)]

default_maptos_rest_listen_port ==
  [key |-> "MAPTOS_API_LISTEN_PORT", ty |-> "u16", default |-> UIntVal("u16", Nat2Digits(30731))]

default_maptos_rest_connection_hostname ==
  [key |-> "MAPTOS_API_CONNECTION_HOSTNAME", ty |-> "String", default |-> StringVal(Hostname0)]

default_maptos_rest_connection_port ==
  [key |-> "MAPTOS_API_CONNECTION_PORT", ty |-> "u16", default |-> UIntVal("u16", Nat2Digits(30731))]

default_maptos_faucet_rest_listen_hostname ==
  [key |-> "FAUCET_API_LISTEN_HOSTNAME", ty |-> "String", default |-> StringVal(Hostname0)]

\* The faucet port declared with the default of the Maptos API port.
default_maptos_faucet_rest_listen_port_copied ==
  [key |-> "FAUCET_API_LISTEN_PORT", ty |-> "u16", default |-> UIntVal("u16", Nat2Digits(30731))]

default_maptos_faucet_rest_listen_port ==
  [key |-> "FAUCET_API_LISTEN_PORT", ty |-> "u16", default |-> UIntVal("u16", Nat2Digits(30732))]

default_maptos_faucet_rest_connection_hostname ==
  [key |-> "FAUCET_API_CONNECTION_HOSTNAME", ty |-> "String", default |-> StringVal(Hostname0)]

default_maptos_faucet_rest_connection_port ==
  [key |-> "FAUCET_API_CONNECTION_PORT", ty |-> "u16", default |-> UIntVal("u16", Nat2Digits(30732))]

default_fin_rest_listen_hostname ==
  [key |-> "MAPTOS_FIN_VIEW_API_LISTEN_HOSTNAME", ty |-> "String", default |-> StringVal(Hostname0)]

default_fin_rest_listen_port ==
  [key |-> "MAPTOS_FIN_VIEW_API_LISTEN_PORT", ty |-> "u16", default |-> UIntVal("u16", Nat2Digits(30733))]

default_fin_rest_connection_hostname ==
  [key |-> "MAPTOS_FIN_VIEW_API_CONNECTION_HOSTNAME", ty |-> "String", default |-> StringVal(Hostname0)]

\* The chain id declared with the digits of its default transposed.
default_maptos_chain_id_transposed ==
  [key |-> "MAPTOS_CHAIN_ID", ty |-> "ChainId", default |-> unwrap(ChainId_from_str(<<"7","2">>)).val]

default_maptos_chain_id ==
  [key |-> "MAPTOS_CHAIN_ID", ty |-> "ChainId", default |-> unwrap(ChainId_from_str(<<"2","7">>)).val]

default_maptos_indexer_grpc_listen_hostname ==
  [key |-> "MAPTOS_INDEXER_GRPC_LISTEN_HOSTNAME", ty |-> "String", default |-> StringVal(Hostname0)]

default_maptos_indexer_grpc_listen_port ==
  [key |-> "MAPTOS_INDEXER_GRPC_LISTEN_PORT", ty |-> "u16", default |-> UIntVal("u16", Nat2Digits(30734))]

default_maptos_indexer_grpc_connection_hostname ==
  [key |-> "MAPTOS_INDEXER_GRPC_CONNECTION_HOSTNAME", ty |-> "String", default |-> StringVal(Hostname0)]

default_maptos_indexer_grpc_connection_port ==
  [key |-> "MAPTOS_INDEXER_GRPC_CONNECTION_PORT", ty |-> "u16", default |-> UIntVal("u16", Nat2Digits(30734))]

default_maptos_indexer_grpc_inactivity_timeout ==
  [key |-> "MAPTOS_INDEXER_GRPC_INACTIVITY_TIMEOUT_SEC", ty |-> "u64", default |-> UIntVal("u64", Nat2Digits(60))]

default_maptos_indexer_grpc_ping_interval ==
  [key |-> "MAPTOS_INDEXER_GRPC_PING_INTERVAL_SEC", ty |-> "u64", default |-> UIntVal("u64", Nat2Digits(10))]

\* The pruning window declared as a u16.
default_maptos_ledger_prune_window_u16 ==
  [key |-> "MAPTOS_LEDGER_PRUNING_WINDOW", ty |-> "u16", default |-> UIntVal("u64", Nat2Digits(50000000))]

default_maptos_ledger_prune_window ==
  [key |-> "MAPTOS_LEDGER_PRUNING_WINDOW", ty |-> "u64", default |-> UIntVal("u64", Nat2Digits(50000000))]

default_maptos_state_merkle_prune_window ==
  [key |-> "MAPTOS_STATE_MERKLE_PRUNING_WINDOW", ty |-> "u64", default |-> UIntVal("u64", Nat2Digits(100000))]

default_maptos_epoch_snapshot_prune_window ==
  [key |-> "MAPTOS_EPOCH_SNAPSHOT_PRUNING_WINDOW", ty |-> "u64", default |-> UIntVal("u64", Nat2Digits(50000000))]

default_postgres_connection_string ==
  [key |-> "INDEXER_PROCESSOR_POSTGRES_CONNECTION_STRING", ty |-> "String",
   default |-> StringVal(<<"p","o","s","t","g","r","e","s","q","l",":","/","/","p","o","s","t","g","r","e","s",":","p","a","s","s","w","o","r","d","@","l","o","c","a","l","h","o","s","t",":","5","4","3","2">>)]

default_indexer_processor_auth_token ==
  [key |-> "INDEXER_PROCESSOR_AUTH_TOKEN", ty |-> "String",
   default |-> StringVal(<<"a","u","t","h","_","t","o","k","e","n">>)]

default_max_transactions_in_flight ==
  [key |-> "MAPTOS_MAX_TRANSACTIONS_IN_FLIGHT", ty |-> "u64", default |-> UIntVal("u64", Nat2Digits(12000))]

\* Every env_default! getter of common.rs, by function name.
Getters ==
  [default_maptos_rest_listen_hostname |-> default_maptos_rest_listen_hostname,
   default_maptos_rest_listen_port |-> default_maptos_rest_listen_port,
   default_maptos_rest_connection_hostname |-> default_maptos_rest_connection_hostname,
   default_maptos_rest_connection_port |-> default_maptos_rest_connection_port,
   default_maptos_faucet_rest_listen_hostname |-> default_maptos_faucet_rest_listen_hostname,
   default_maptos_faucet_rest_listen_port |-> default_maptos_faucet_rest_listen_port,
   default_maptos_faucet_rest_connection_hostname |-> default_maptos_faucet_rest_connection_hostname,
   default_maptos_faucet_rest_connection_port |-> default_maptos_faucet_rest_connection_port,
   default_fin_rest_listen_hostname |-> default_fin_rest_listen_hostname,
   default_fin_rest_listen_port |-> default_fin_rest_listen_port,
   default_fin_rest_connection_hostname |-> default_fin_rest_connection_hostname,
   default_maptos_chain_id |-> default_maptos_chain_id,
   default_maptos_indexer_grpc_listen_hostname |-> default_maptos_indexer_grpc_listen_hostname,
   default_maptos_indexer_grpc_listen_port |-> default_maptos_indexer_grpc_listen_port,
   default_maptos_indexer_grpc_connection_hostname |-> default_maptos_indexer_grpc_connection_hostname,
   default_maptos_indexer_grpc_connection_port |-> default_maptos_indexer_grpc_connection_port,
   default_maptos_indexer_grpc_inactivity_timeout |-> default_maptos_indexer_grpc_inactivity_timeout,
   default_maptos_indexer_grpc_ping_interval |-> default_maptos_indexer_grpc_ping_interval,
   default_maptos_ledger_prune_window |-> default_maptos_ledger_prune_window,
   default_maptos_state_merkle_prune_window |-> default_maptos_state_merkle_prune_window,
   default_maptos_epoch_snapshot_prune_window |-> default_maptos_epoch_snapshot_prune_window,
   default_postgres_connection_string |-> default_postgres_connection_string,
   default_indexer_processor_auth_token |-> default_indexer_processor_auth_token,
   default_max_transactions_in_flight |-> default_max_transactions_in_flight]

GetterNames == DOMAIN Getters

PRIVATE_KEY_VAR == "MAPTOS_PRIVATE_KEY"

EnvKeys == {Getters[g].key : g \in GetterNames} \cup {PRIVATE_KEY_VAR}

----------------------------------------------------------------------------
(* The process environment *)

\* One environment variable: unset, set to valid Unicode text, or set to
\* bytes that are not valid Unicode.
Absent == [st |-> "absent", txt |-> <<>>]
Text(t) == [st |-> "unicode", txt |-> t]
NotUnicode == [st |-> "not_unicode", txt |-> <<>>]

\* std::env::var: Ok(text) for a variable holding valid Unicode,
\* Err(NotPresent) for an unset one, Err(NotUnicode(..)) otherwise.
env_var(e, key) ==
  IF e[key].st = "unicode" THEN [kind |-> "ok", txt |-> e[key].txt]
  ELSE [kind |-> "err", txt |-> <<>>]

\* str::parse::<T>() for the types of the getters
parse(ty, s) ==
  CASE ty = "String" -> Ok(StringVal(s))
    [] ty = "u16" -> LET r == uint_from_str(s, U16_MAX) IN
                     IF r.kind = "ok" THEN Ok(UIntVal("u16", r.val)) ELSE Err
    [] ty = "u64" -> LET r == uint_from_str(s, U64_MAX) IN
                     IF r.kind = "ok" THEN Ok(UIntVal("u64", r.val)) ELSE Err
    [] ty = "ChainId" -> ChainId_from_str(s)

\* The effect of one call: its outcome, the environment it leaves, and the
\* number of values it draws from rand::thread_rng().
Effect(result, e, draws) == [result |-> result, env |-> e, draws |-> draws]

\* env_default! falling back to the default when the text does not parse.
env_default_fallback(e, key, ty, default) ==
  IF e[key].st = "absent" THEN Effect(Ok(default), e, 0)
  ELSE LET r == parse(ty, e[key].txt) IN
       IF r.kind = "ok" THEN Effect(r, e, 0) ELSE Effect(Ok(default), e, 0)

\* env_default! where an unset port falls back to MAPTOS_API_LISTEN_PORT.
env_default_shared(e, key, ty, default) ==
  IF e[key].st = "absent"
  THEN IF ty = "u16" /\ e["MAPTOS_API_LISTEN_PORT"].st = "unicode"
       THEN Effect(unwrap(parse(ty, e["MAPTOS_API_LISTEN_PORT"].txt)), e, 0)
       ELSE Effect(Ok(default), e, 0)
  ELSE Effect(unwrap(parse(ty, e[key].txt)), e, 0)

\* The function generated by env_default!(name, key, ty, default): the
\* default when the variable is unset, else the parsed text, failing when
\* the text does not parse.
env_default(e, key, ty, default) ==
  IF e[key].st = "absent" THEN Effect(Ok(default), e, 0)
  ELSE Effect(unwrap(parse(ty, e[key].txt)), e, 0)

\* default_maptos_private_key never reading the variable.
default_maptos_private_key_always_generates(e, generated) ==
  Effect(Ok(KeyVal(generated)), e, 1)

\* default_maptos_private_key keeping the key of an earlier call.
default_maptos_private_key_cached(e, generated) ==
  IF last.op # "none" /\ last.fn = "default_maptos_private_key" /\ last.result.kind = "ok"
  THEN Effect(last.result, e, 0)
  ELSE LET val == env_var(e, PRIVATE_KEY_VAR) IN
       IF val.kind = "ok" THEN Effect(unwrap(from_encoded_string(val.txt)), e, 0)
       ELSE Effect(Ok(KeyVal(generated)), e, 1)

\* default_maptos_private_key storing the key it generated in the variable.
default_maptos_private_key_exports(e, generated) ==
  LET val == env_var(e, PRIVATE_KEY_VAR) IN
  IF val.kind = "ok" THEN Effect(unwrap(from_encoded_string(val.txt)), e, 0)
  ELSE Effect(Ok(KeyVal(generated)),
              [e EXCEPT ![PRIVATE_KEY_VAR] = Text(to_encoded_string(KeyVal(generated)))], 1)

\* pub fn default_maptos_private_key() -> Ed25519PrivateKey
\* generated is what Ed25519PrivateKey::generate draws from thread_rng().
default_maptos_private_key(e, generated) ==
  LET val == env_var(e, PRIVATE_KEY_VAR) IN
  IF val.kind = "ok" THEN Effect(unwrap(from_encoded_string(val.txt)), e, 0)
  ELSE Effect(Ok(KeyVal(generated)), e, 1)

----------------------------------------------------------------------------
(* Inputs: the texts an operator may put in a variable, and the keys the *)
(* random generator may hand out.                                        *)

Rep(pair, n) == [i \in 1..(2 * n) |-> pair[2 - (i % 2)]]

NotANumber == <<"n","o","t","-","a","-","n","u","m","b","e","r">>
U64MaxText == <<"1","8","4","4","6","7","4","4","0","7","3","7","0","9","5","5","1","6","1","5">>
U64OverText == <<"1","8","4","4","6","7","4","4","0","7","3","7","0","9","5","5","1","6","1","6">>

KeyTextCanonical == <<"0","x">> \o Rep(<<"a","b">>, 32)
KeyTextUpper == <<"0","x">> \o Rep(<<"A","B">>, 32)
KeyTextNoPrefix == Rep(<<"0","1">>, 32)
KeyTextShort == <<"0","x">> \o Rep(<<"a","b">>, 31)
KeyTextNotHex == <<"0","x">> \o Rep(<<"z","z">>, 32)

U16Samples ==
  {<<"7">>, <<"0","0","7">>, <<"+","7">>, <<"7","0","0","0","0">>, NotANumber, <<>>}

U64Samples ==
  {<<"7">>, <<"0","0","7">>, U64MaxText, U64OverText, NotANumber}

StringSamples == {<<"l","o","c","a","l","h","o","s","t">>}

ChainIdSamples ==
  {<<"4">>, <<"t","e","s","t","i","n","g">>, <<"0">>, <<"2","5","6">>, NotANumber}

KeySamples ==
  {KeyTextCanonical, KeyTextUpper, KeyTextNoPrefix, KeyTextShort, KeyTextNotHex}

GenKeys == {[i \in 1..ED25519_PRIVATE_KEY_LENGTH |-> 17],
            [i \in 1..ED25519_PRIVATE_KEY_LENGTH |-> 34]}

TypeOfKey ==
  [k \in EnvKeys |->
     IF k = PRIVATE_KEY_VAR THEN "Ed25519PrivateKey"
     ELSE LET g == CHOOSE x \in GetterNames : Getters[x].key = k IN Getters[g].ty]

\* The values a variable may be set to.  Only MAPTOS_PRIVATE_KEY is given a
\* value that is not valid Unicode.
Samples ==
  [k \in EnvKeys |->
     CASE TypeOfKey[k] = "String" -> {Text(t) : t \in StringSamples}
       [] TypeOfKey[k] = "u16" -> {Text(t) : t \in U16Samples}
       [] TypeOfKey[k] = "u64" -> {Text(t) : t \in U64Samples}
       [] TypeOfKey[k] = "ChainId" -> {Text(t) : t \in ChainIdSamples}
       [] TypeOfKey[k] = "Ed25519PrivateKey" -> {Text(t) : t \in KeySamples} \cup {NotUnicode}]

NumSet(e) == Cardinality({k \in EnvKeys : e[k].st # "absent"})

----------------------------------------------------------------------------
(* State and actions *)

\* last records the most recent call: the function, its outcome and the
\* number of random draws it made.
NoCall == [op |-> "none", fn |-> "", result |-> [kind |-> "none", val |-> NoVal],
           draws |-> 0]

\* A call is a "recall" when the same function was called before and the
\* environment has changed since (the earlier record is "stale").
Called(fn, eff) ==
  [op |-> IF last.op = "stale" /\ last.fn = fn THEN "recall" ELSE "call",
   fn |-> fn, result |-> eff.result, draws |-> eff.draws]

Stale(l) == IF l.op = "none" THEN l ELSE [l EXCEPT !.op = "stale"]

IsCall(l) == l.op \in {"call", "recall"}

AllAbsent == [k \in EnvKeys |-> Absent]

\* The process starts in the environment the operator gave it.
Init ==
  /\ env \in {AllAbsent} \cup
             UNION {{[AllAbsent EXCEPT ![k] = v] : v \in Samples[k]} : k \in EnvKeys}
  /\ last = NoCall

\* The getter g run in environment e
Getter(g, e) == env_default(e, Getters[g].key, Getters[g].ty, Getters[g].default)

\* A call of one of the env_default! getters.
CallGetter(g) ==
  LET eff == Getter(g, env) IN
  /\ env' = eff.env
  /\ last' = Called(g, eff)

\* A call of default_maptos_private_key.
CallPrivateKey ==
  \E generated \in GenKeys :
    LET eff == default_maptos_private_key(env, generated) IN
    /\ env' = eff.env
    /\ last' = Called("default_maptos_private_key", eff)

\* std::env::set_var, by the process or its launcher
set_var(k, v) ==
  /\ env[k] # v
  /\ env' = [env EXCEPT ![k] = v]

\* std::env::remove_var
remove_var(k) ==
  /\ env[k].st # "absent"
  /\ env' = [env EXCEPT ![k] = Absent]

\* The variables that may be given a value without exceeding MaxSet
Settable ==
  LET n == NumSet(env) IN {k \in EnvKeys : env[k].st # "absent" \/ n < MaxSet}

SetVar == \E k \in Settable : \E v \in Samples[k] : set_var(k, v) /\ last' = NoCall

RemoveVar == \E k \in EnvKeys : remove_var(k) /\ last' = NoCall

Call == \E g \in GetterNames : CallGetter(g)

Next == Call \/ CallPrivateKey \/ SetVar \/ RemoveVar

Spec == Init /\ [][Next]_vars

----------------------------------------------------------------------------
(* The same program, observed across changes of two variables: the record *)
(* of the last call is kept (marked stale) when the environment changes.  *)

RecallKeys == {PRIVATE_KEY_VAR, "MAPTOS_MAX_TRANSACTIONS_IN_FLIGHT"}

InitRecall == env = AllAbsent /\ last = NoCall

SetVarRecall ==
  \E k \in RecallKeys : \E v \in Samples[k] : set_var(k, v) /\ last' = Stale(last)

RemoveVarRecall == \E k \in RecallKeys : remove_var(k) /\ last' = Stale(last)

NextRecall == Call \/ CallPrivateKey \/ SetVarRecall \/ RemoveVarRecall

SpecRecall == InitRecall /\ [][NextRecall]_vars

----------------------------------------------------------------------------
(* Reference data of the properties: the table of external inputs, and    *)
(* texts with the value they denote.                                      *)

RefString(t) == StringVal(t)
RefU16(n) == UIntVal("u16", Nat2Digits(n))
RefU64(n) == UIntVal("u64", Nat2Digits(n))
RefChainId(n) == ChainIdVal(n)

\* External key -> type and default, as documented.
InterfaceTable ==
  [MAPTOS_API_LISTEN_HOSTNAME |-> [ty |-> "string", default |-> RefString(<<"0",".","0",".","0",".","0">>)],
   MAPTOS_API_LISTEN_PORT |-> [ty |-> "uint16", default |-> RefU16(30731)],
   MAPTOS_API_CONNECTION_HOSTNAME |-> [ty |-> "string", default |-> RefString(<<"0",".","0",".","0",".","0">>)],
   MAPTOS_API_CONNECTION_PORT |-> [ty |-> "uint16", default |-> RefU16(30731)],
   FAUCET_API_LISTEN_HOSTNAME |-> [ty |-> "string", default |-> RefString(<<"0",".","0",".","0",".","0">>)],
   FAUCET_API_LISTEN_PORT |-> [ty |-> "uint16", default |-> RefU16(30732)],
   FAUCET_API_CONNECTION_HOSTNAME |-> [ty |-> "string", default |-> RefString(<<"0",".","0",".","0",".","0">>)],
   FAUCET_API_CONNECTION_PORT |-> [ty |-> "uint16", default |-> RefU16(30732)],
   MAPTOS_FIN_VIEW_API_LISTEN_HOSTNAME |-> [ty |-> "string", default |-> RefString(<<"0",".","0",".","0",".","0">>)],
   MAPTOS_FIN_VIEW_API_LISTEN_PORT |-> [ty |-> "uint16", default |-> RefU16(30733)],
   MAPTOS_FIN_VIEW_API_CONNECTION_HOSTNAME |-> [ty |-> "string", default |-> RefString(<<"0",".","0",".","0",".","0">>)],
   MAPTOS_CHAIN_ID |-> [ty |-> "chain identifier", default |-> RefChainId(27)],
   MAPTOS_INDEXER_GRPC_LISTEN_HOSTNAME |-> [ty |-> "string", default |-> RefString(<<"0",".","0",".","0",".","0">>)],
   MAPTOS_INDEXER_GRPC_LISTEN_PORT |-> [ty |-> "uint16", default |-> RefU16(30734)],
   MAPTOS_INDEXER_GRPC_CONNECTION_HOSTNAME |-> [ty |-> "string", default |-> RefString(<<"0",".","0",".","0",".","0">>)],
   MAPTOS_INDEXER_GRPC_CONNECTION_PORT |-> [ty |-> "uint16", default |-> RefU16(30734)],
   MAPTOS_INDEXER_GRPC_INACTIVITY_TIMEOUT_SEC |-> [ty |-> "uint64", default |-> RefU64(60)],
   MAPTOS_INDEXER_GRPC_PING_INTERVAL_SEC |-> [ty |-> "uint64", default |-> RefU64(10)],
   MAPTOS_LEDGER_PRUNING_WINDOW |-> [ty |-> "uint64", default |-> RefU64(50000000)],
   MAPTOS_STATE_MERKLE_PRUNING_WINDOW |-> [ty |-> "uint64", default |-> RefU64(100000)],
   MAPTOS_EPOCH_SNAPSHOT_PRUNING_WINDOW |-> [ty |-> "uint64", default |-> RefU64(50000000)],
   INDEXER_PROCESSOR_POSTGRES_CONNECTION_STRING |->
     [ty |-> "string",
      default |-> RefString(<<"p","o","s","t","g","r","e","s","q","l",":","/","/","p","o","s","t","g","r","e","s",":","p","a","s","s","w","o","r","d","@","l","o","c","a","l","h","o","s","t",":","5","4","3","2">>)],
   INDEXER_PROCESSOR_AUTH_TOKEN |-> [ty |-> "string", default |-> RefString(<<"a","u","t","h","_","t","o","k","e","n">>)],
   MAPTOS_MAX_TRANSACTIONS_IN_FLIGHT |-> [ty |-> "uint64", default |-> RefU64(12000)]]

\* Texts that are not a value of the type.
MalformedTexts ==
  [string |-> {},
   uint16 |-> {NotANumber, <<"7","0","0","0","0">>, <<>>},
   uint64 |-> {NotANumber, U64OverText},
   chain |-> {NotANumber, <<"2","5","6">>, <<"0">>}]

\* Texts that are a value of the type, with the value they denote.
ValidTexts ==
  [string |-> (<<"l","o","c","a","l","h","o","s","t">> :> RefString(<<"l","o","c","a","l","h","o","s","t">>)),
   uint16 |-> (<<"7">> :> RefU16(7)) @@ (<<"0","0","7">> :> RefU16(7)) @@ (<<"+","7">> :> RefU16(7)),
   uint64 |-> (<<"7">> :> RefU64(7)) @@ (<<"0","0","7">> :> RefU64(7)) @@
              (U64MaxText :> UIntVal("u64", <<1,8,4,4,6,7,4,4,0,7,3,7,0,9,5,5,1,6,1,5>>)),
   chain |-> (<<"4">> :> RefChainId(4)) @@ (<<"t","e","s","t","i","n","g">> :> RefChainId(4))]

TypeClass(ty) == IF ty = "chain identifier" THEN "chain" ELSE ty

\* Encoded private keys, with the key bytes they denote (0xab = 171).
ValidKeyTexts ==
  (KeyTextCanonical :> [i \in 1..32 |-> 171]) @@
  (KeyTextUpper :> [i \in 1..32 |-> 171]) @@
  (KeyTextNoPrefix :> [i \in 1..32 |-> 1])

\* The canonical string encoding of the key an encoded text denotes.
CanonicalKeyText ==
  (KeyTextCanonical :> KeyTextCanonical) @@
  (KeyTextUpper :> KeyTextCanonical) @@
  (KeyTextNoPrefix :> (<<"0","x">> \o KeyTextNoPrefix))

\* A decimal text in canonical form: digits only, no superfluous leading zero.
IsCanonicalDecimal(t) ==
  /\ t # <<>>
  /\ \A i \in 1..Len(t) : t[i] \in DigitChars
  /\ Len(t) > 1 => t[1] # "0"

PRIVATE_KEY_FN == "default_maptos_private_key"

GetterCalled == IsCall(last) /\ last.fn \in GetterNames
PrivateKeyCalled == IsCall(last) /\ last.fn = PRIVATE_KEY_FN

\* The variable, and its documented entry, of the getter called last.
OwnKey == Getters[last.fn].key
OwnVar == env[OwnKey]
OwnEntry == InterfaceTable[OwnKey]
OwnClass == TypeClass(OwnEntry.ty)

----------------------------------------------------------------------------
(* Properties *)

\* C1: every documented key has a getter, and a getter called while its
\* variable is unset returns exactly the documented default; being unset is
\* never a failure.
C1_AbsentGivesDefault ==
  /\ {Getters[g].key : g \in GetterNames} = DOMAIN InterfaceTable
  /\ (GetterCalled /\ OwnVar.st = "absent") => last.result = Ok(OwnEntry.default)

C1_Witness ==
  /\ GetterCalled
  /\ last.fn = "default_maptos_ledger_prune_window"
  /\ OwnVar.st = "absent"
  /\ last.result = Ok(RefU64(50000000))

\* C2: a getter called while its variable holds a text that is not a value
\* of the getter's type fails; it returns neither the default nor any other
\* value.
C2_MalformedFails ==
  (GetterCalled /\ OwnVar.st = "unicode" /\ OwnVar.txt \in MalformedTexts[OwnClass])
    => last.result.kind = "panic"

C2_Witness ==
  /\ GetterCalled
  /\ last.fn = "default_maptos_rest_listen_port"
  /\ OwnVar = Text(NotANumber)
  /\ last.result.kind = "panic"

\* C3: default_maptos_private_key called while MAPTOS_PRIVATE_KEY is set to
\* anything but a validly encoded key (text or not) fails and draws no key;
\* a generated key is returned only when the variable is unset.
C3_MalformedKeyFails ==
  PrivateKeyCalled =>
    /\ (env[PRIVATE_KEY_VAR].st # "absent" /\ ~(env[PRIVATE_KEY_VAR].st = "unicode"
           /\ env[PRIVATE_KEY_VAR].txt \in DOMAIN ValidKeyTexts))
         => (last.result.kind = "panic" /\ last.draws = 0)
    /\ last.draws > 0 => env[PRIVATE_KEY_VAR].st = "absent"

\* C4: default_maptos_private_key called while MAPTOS_PRIVATE_KEY is unset
\* succeeds with a key drawn from the random generator; the generator is
\* used in that case only, and never by an env_default! getter.
C4_RandomOnlyWhenAbsent ==
  /\ PrivateKeyCalled =>
       /\ env[PRIVATE_KEY_VAR].st = "absent" =>
            (last.result.kind = "ok" /\ last.result.val \in {KeyVal(g) : g \in GenKeys}
               /\ last.draws = 1)
       /\ env[PRIVATE_KEY_VAR].st # "absent" => last.draws = 0
  /\ GetterCalled => last.draws = 0

\* C5 as stated: a validly encoded MAPTOS_PRIVATE_KEY is decoded, and
\* re-encoding the returned key yields exactly the input text.
C5_ReencodeIsInput ==
  (PrivateKeyCalled /\ env[PRIVATE_KEY_VAR].st = "unicode"
     /\ env[PRIVATE_KEY_VAR].txt \in DOMAIN ValidKeyTexts)
    => /\ last.result = Ok(KeyVal(ValidKeyTexts[env[PRIVATE_KEY_VAR].txt]))
       /\ to_encoded_string(last.result.val) = env[PRIVATE_KEY_VAR].txt

\* C5 amended: a validly encoded MAPTOS_PRIVATE_KEY is decoded, and
\* re-encoding the returned key yields the canonical encoding of that key
\* ("0x" and lowercase hexadecimal digits), which is the input text exactly
\* when the input is already in that form.
C5_ReencodeIsCanonical ==
  (PrivateKeyCalled /\ env[PRIVATE_KEY_VAR].st = "unicode"
     /\ env[PRIVATE_KEY_VAR].txt \in DOMAIN ValidKeyTexts)
    => /\ last.result = Ok(KeyVal(ValidKeyTexts[env[PRIVATE_KEY_VAR].txt]))
       /\ to_encoded_string(last.result.val) = CanonicalKeyText[env[PRIVATE_KEY_VAR].txt]
       /\ (to_encoded_string(last.result.val) = env[PRIVATE_KEY_VAR].txt)
            <=> (env[PRIVATE_KEY_VAR].txt = CanonicalKeyText[env[PRIVATE_KEY_VAR].txt])

C5_Witness ==
  /\ PrivateKeyCalled
  /\ env[PRIVATE_KEY_VAR] = Text(KeyTextUpper)
  /\ last.result.kind = "ok"
  /\ to_encoded_string(last.result.val) = KeyTextCanonical

\* C6 as stated: a getter called while its variable holds a valid text
\* returns the value of that text, and for the integer types printing the
\* returned value reproduces the text.
C6_RoundTrip ==
  (GetterCalled /\ OwnVar.st = "unicode" /\ OwnVar.txt \in DOMAIN ValidTexts[OwnClass])
    => /\ last.result = Ok(ValidTexts[OwnClass][OwnVar.txt])
       /\ OwnClass \in {"uint16", "uint64"} => uint_to_string(last.result.val.ints) = OwnVar.txt

\* C6 amended: a getter called while its variable holds a valid text
\* returns the value of that text, and for the integer types printing the
\* returned value reproduces the text provided the text is in canonical
\* decimal form (no sign, no superfluous leading zero).
C6_RoundTripCanonical ==
  (GetterCalled /\ OwnVar.st = "unicode" /\ OwnVar.txt \in DOMAIN ValidTexts[OwnClass])
    => /\ last.result = Ok(ValidTexts[OwnClass][OwnVar.txt])
       /\ (OwnClass \in {"uint16", "uint64"} /\ IsCanonicalDecimal(OwnVar.txt))
            => uint_to_string(last.result.val.ints) = OwnVar.txt

C6_Witness ==
  /\ GetterCalled
  /\ last.fn = "default_maptos_ledger_prune_window"
  /\ OwnVar = Text(U64MaxText)
  /\ last.result.kind = "ok"
  /\ uint_to_string(last.result.val.ints) = U64MaxText

\* C7: default_maptos_chain_id gives chain 27 when MAPTOS_CHAIN_ID is unset
\* and chain 4 when it holds the text 4.
C7_ChainId ==
  (IsCall(last) /\ last.fn = "default_maptos_chain_id")
    => /\ env["MAPTOS_CHAIN_ID"].st = "absent" => last.result = Ok(RefChainId(27))
       /\ env["MAPTOS_CHAIN_ID"] = Text(<<"4">>) => last.result = Ok(RefChainId(4))

C7_Witness ==
  /\ IsCall(last)
  /\ last.fn = "default_maptos_chain_id"
  /\ env["MAPTOS_CHAIN_ID"] = Text(<<"4">>)
  /\ last.result = Ok(RefChainId(4))

\* C8: the outcome of a getter depends on its own variable only: whatever
\* was called before, the same getter run in an environment that differs in
\* any one other variable gives the same outcome.
C8_OwnKeyOnly ==
  GetterCalled =>
    \A k \in EnvKeys \ {OwnKey} : \A v \in Samples[k] \cup {Absent} :
      Getter(last.fn, [env EXCEPT ![k] = v]).result = last.result

C8_Witness ==
  /\ GetterCalled
  /\ last.fn = "default_maptos_rest_connection_port"
  /\ env["MAPTOS_API_LISTEN_PORT"] = Text(<<"7">>)
  /\ last.result = Ok(RefU16(30731))

\* C9: nothing is cached: the outcome of every call, also of one that
\* follows an earlier call and a change of the variable, is the one the
\* environment at the moment of the call determines.
C9_NoCache ==
  /\ GetterCalled =>
       /\ OwnVar.st = "absent" => last.result = Ok(OwnEntry.default)
       /\ (OwnVar.st = "unicode" /\ OwnVar.txt \in DOMAIN ValidTexts[OwnClass])
            => last.result = Ok(ValidTexts[OwnClass][OwnVar.txt])
       /\ (OwnVar.st = "unicode" /\ OwnVar.txt \in MalformedTexts[OwnClass])
            => last.result.kind = "panic"
  /\ PrivateKeyCalled =>
       /\ env[PRIVATE_KEY_VAR].st = "absent" =>
            (last.result.kind = "ok" /\ last.result.val \in {KeyVal(g) : g \in GenKeys}
               /\ last.draws = 1)
       /\ (env[PRIVATE_KEY_VAR].st = "unicode" /\ env[PRIVATE_KEY_VAR].txt \in DOMAIN ValidKeyTexts)
            => last.result = Ok(KeyVal(ValidKeyTexts[env[PRIVATE_KEY_VAR].txt]))
       /\ (env[PRIVATE_KEY_VAR].st = "unicode" /\ env[PRIVATE_KEY_VAR].txt \in {KeyTextShort, KeyTextNotHex})
            => last.result.kind = "panic"

C9_Witness ==
  /\ last.op = "recall"
  /\ last.fn = PRIVATE_KEY_FN
  /\ env[PRIVATE_KEY_VAR] = Text(KeyTextCanonical)
  /\ last.result = Ok(KeyVal([i \in 1..32 |-> 171]))

\* C10: no call writes the environment: a step that is a call, returning
\* or failing, leaves every variable as it was.
C10_EnvUnchanged == [][IsCall(last') => env' = env]_vars

C10_Witness ==
  /\ PrivateKeyCalled
  /\ env[PRIVATE_KEY_VAR] = Text(KeyTextShort)
  /\ last.result.kind = "panic"

====
